---- MODULE Spec2Model ----
(***************************************************************************)
(* Revocation-information freshness evaluation of pyhanko_certvalidator    *)
(* (revinfo_archival.py): the judgment function _judge_revinfo, its helper *)
(* _freshness_delta, and the usable_at methods of OCSPWithPOE and          *)
(* CRLWithPOE.                                                             *)
(*                                                                         *)
(* datetime and timedelta values are integers (both are integral counts of *)
(* microseconds in Python).  Optional[T] is a sequence: <<>> is None and   *)
(* <<v>> is the value v.  A call either returns a RevinfoUsabilityRating   *)
(* ("OK", "STALE", "TOO_NEW", "UNCLEAR") or raises; a raised exception is  *)
(* recorded in result by its class name.                                   *)
(***************************************************************************)
EXTENDS Integers, Sequences, FiniteSets

VARIABLES
    entry,              \* which function the caller invokes
    revinfo,            \* the OCSPWithPOE / CRLWithPOE instance (frozen)
    this_update,        \* this_update as received by _judge_revinfo
    next_update,        \* next_update as received by _judge_revinfo
    validation_time,
    policy,             \* CertRevTrustPolicy
    time_tolerance,
    signature_poe_time,
    pc,                 \* "call": arguments bound, "done": call has ended
    result              \* rating returned or exception raised

vars == <<entry, revinfo, this_update, next_update, validation_time, policy,
          time_tolerance, signature_poe_time, pc, result>>

---------------------------------------------------------------------------
(* Bounds of the checked input space *)

MaxTime == 3
MaxTolerance == 1
MaxFreshness == 1
MaxResponses == 2

---------------------------------------------------------------------------
(* Values *)

None == <<>>
Some(v) == <<v>>
Optional(S) == {None} \cup {Some(v) : v \in S}

Abs(d) == IF d < 0 THEN -d ELSE d

Time == 0..MaxTime
Tolerance == 0..MaxTolerance
Freshness == (-MaxFreshness)..MaxFreshness

\* RevinfoUsabilityRating
OK == "OK"
STALE == "STALE"
TOO_NEW == "TOO_NEW"
UNCLEAR == "UNCLEAR"
RevinfoUsabilityRating == {OK, STALE, TOO_NEW, UNCLEAR}

\* Exceptions a call can end in
NotImplementedError == "NotImplementedError"
TypeError == "TypeError"

\* FreshnessReqType members tested by _judge_revinfo, and a value that is
\* none of them (reaches the final else branch)
DEFAULT == "DEFAULT"
TIME_AFTER_SIGNATURE == "TIME_AFTER_SIGNATURE"
MAX_DIFF_REVOCATION_VALIDATION == "MAX_DIFF_REVOCATION_VALIDATION"
OTHER_REQ_TYPE == "OTHER_REQ_TYPE"
FreshnessReqType ==
    {DEFAULT, TIME_AFTER_SIGNATURE, MAX_DIFF_REVOCATION_VALIDATION}

CertRevTrustPolicy ==
    [freshness_req_type : FreshnessReqType \cup {OTHER_REQ_TYPE},
     freshness : Optional(Freshness),
     retroactive_revinfo : BOOLEAN]

---------------------------------------------------------------------------
(* _freshness_delta *)

\* variant: the tolerance is subtracted from the window
_freshness_delta_minus_tolerance(pol, tu, nu, tol) ==
    LET freshness_delta ==
            IF pol.freshness = None
            THEN IF nu # None /\ nu[1] >= tu[1]
                 THEN Some(nu[1] - tu[1])
                 ELSE None
            ELSE pol.freshness
    IN  IF freshness_delta # None
        THEN Some(Abs(freshness_delta[1]) - tol)
        ELSE None

\* variant: the window is derived from next_update whatever its order
_freshness_delta_any_order(pol, tu, nu, tol) ==
    LET freshness_delta ==
            IF pol.freshness = None
            THEN IF nu # None
                 THEN Some(nu[1] - tu[1])
                 ELSE None
            ELSE pol.freshness
    IN  IF freshness_delta # None
        THEN Some(Abs(freshness_delta[1]) + tol)
        ELSE None

_freshness_delta(pol, tu, nu, tol) ==
    LET freshness_delta ==
            IF pol.freshness = None
            THEN IF nu # None /\ nu[1] >= tu[1]
                 THEN Some(nu[1] - tu[1])
                 ELSE None
            ELSE pol.freshness
    IN  IF freshness_delta # None
        THEN Some(Abs(freshness_delta[1]) + tol)
        ELSE None

---------------------------------------------------------------------------
(* _judge_revinfo: the three policy branches, then the dispatch *)

\* variant: the boundary this_update - anchor = window is rated STALE
_judge_time_after_signature_exclusive(tu, nu, vt, pol, tol, sig) ==
    LET freshness_delta == _freshness_delta(pol, tu, nu, tol)
        anchor == IF sig # None THEN sig[1] ELSE vt
    IN  IF freshness_delta = None THEN UNCLEAR
        ELSE IF tu[1] - anchor <= freshness_delta[1] THEN STALE
        ELSE OK

\* branch FreshnessReqType.TIME_AFTER_SIGNATURE
_judge_time_after_signature(tu, nu, vt, pol, tol, sig) ==
    LET freshness_delta == _freshness_delta(pol, tu, nu, tol)
        \* signature_poe_time or validation_time (a datetime is never falsy)
        anchor == IF sig # None THEN sig[1] ELSE vt
    IN  IF freshness_delta = None THEN UNCLEAR
        ELSE IF tu[1] - anchor < freshness_delta[1] THEN STALE
        ELSE OK

\* variant: the signed difference is compared instead of its absolute value
_judge_max_diff_signed(tu, nu, vt, pol, tol, sig) ==
    LET freshness_delta == _freshness_delta(pol, tu, nu, tol)
        true_delta == vt - tu[1]
    IN  IF freshness_delta = None THEN UNCLEAR
        ELSE IF true_delta > freshness_delta[1]
             THEN (IF true_delta > 0 THEN STALE ELSE TOO_NEW)
        ELSE OK

\* branch FreshnessReqType.MAX_DIFF_REVOCATION_VALIDATION
_judge_max_diff(tu, nu, vt, pol, tol, sig) ==
    LET freshness_delta == _freshness_delta(pol, tu, nu, tol)
        true_delta == vt - tu[1]
    IN  IF freshness_delta = None THEN UNCLEAR
        ELSE IF Abs(true_delta) > freshness_delta[1]
             THEN (IF true_delta > 0 THEN STALE ELSE TOO_NEW)
        ELSE OK

\* variant: the retroactive flag is read inverted
_judge_default_retroactive_inverted(tu, nu, vt, pol, tol, sig) ==
    LET retroactive == pol.retroactive_revinfo
    IN  IF nu = None THEN UNCLEAR
        ELSE IF retroactive /\ vt < tu[1] - tol THEN TOO_NEW
        ELSE IF vt > nu[1] + tol THEN STALE
        ELSE OK

\* variant: the upper bound is tested before the lower bound
_judge_default_stale_first(tu, nu, vt, pol, tol, sig) ==
    LET retroactive == pol.retroactive_revinfo
    IN  IF nu = None THEN UNCLEAR
        ELSE IF vt > nu[1] + tol THEN STALE
        ELSE IF ~retroactive /\ vt < tu[1] - tol THEN TOO_NEW
        ELSE OK

\* branch FreshnessReqType.DEFAULT
_judge_default(tu, nu, vt, pol, tol, sig) ==
    LET retroactive == pol.retroactive_revinfo
    IN  IF nu = None THEN UNCLEAR
        ELSE IF ~retroactive /\ vt < tu[1] - tol THEN TOO_NEW
        ELSE IF vt > nu[1] + tol THEN STALE
        ELSE OK

\* variant: the policy is dispatched before this_update is tested
_judge_revinfo_dispatch_first(tu, nu, vt, pol, tol, sig) ==
    IF pol.freshness_req_type \notin FreshnessReqType
    THEN NotImplementedError
    ELSE IF tu = None THEN UNCLEAR
    ELSE IF pol.freshness_req_type = TIME_AFTER_SIGNATURE
         THEN _judge_time_after_signature(tu, nu, vt, pol, tol, sig)
    ELSE IF pol.freshness_req_type = MAX_DIFF_REVOCATION_VALIDATION
         THEN _judge_max_diff(tu, nu, vt, pol, tol, sig)
    ELSE _judge_default(tu, nu, vt, pol, tol, sig)

\* variant: the final else branch does not raise
_judge_revinfo_no_raise(tu, nu, vt, pol, tol, sig) ==
    IF tu = None THEN UNCLEAR
    ELSE IF pol.freshness_req_type = TIME_AFTER_SIGNATURE
         THEN _judge_time_after_signature(tu, nu, vt, pol, tol, sig)
    ELSE IF pol.freshness_req_type = MAX_DIFF_REVOCATION_VALIDATION
         THEN _judge_max_diff(tu, nu, vt, pol, tol, sig)
    ELSE IF pol.freshness_req_type = DEFAULT
         THEN _judge_default(tu, nu, vt, pol, tol, sig)
    ELSE OK

_judge_revinfo(tu, nu, vt, pol, tol, sig) ==
    IF tu = None THEN UNCLEAR
    ELSE IF pol.freshness_req_type = TIME_AFTER_SIGNATURE
         THEN _judge_time_after_signature(tu, nu, vt, pol, tol, sig)
    ELSE IF pol.freshness_req_type = MAX_DIFF_REVOCATION_VALIDATION
         THEN _judge_max_diff(tu, nu, vt, pol, tol, sig)
    ELSE IF pol.freshness_req_type = DEFAULT
         THEN _judge_default(tu, nu, vt, pol, tol, sig)
    ELSE NotImplementedError

---------------------------------------------------------------------------
(* OCSPWithPOE and CRLWithPOE *)

\* ocsp.SingleResponse, as far as usable_at reads it
SingleResponse == [this_update : Optional(Time), next_update : Optional(Time)]

ResponseStatus == {"successful", "malformed_request"}
ResponseType == {"basic_ocsp_response", "unknown_response_type"}

\* ocsp.OCSPResponse: response_status, response_bytes.response_type and the
\* parsed response_bytes.response (a BasicOCSPResponse) with 0..MaxResponses
\* sub-responses; the sub-responses of one response carry equal timestamps
OCSPResponse ==
    {[response_status |-> s,
      response_bytes |->
        [response_type |-> t,
         response |-> [tbs_response_data |->
                         [responses |-> [i \in 1..n |-> r]]]]] :
        s \in ResponseStatus, t \in ResponseType,
        n \in 0..MaxResponses, r \in SingleResponse}

\* crl.CertificateList, as far as usable_at reads it
CertificateList ==
    [tbs_cert_list : [this_update : Optional(Time),
                      next_update : Optional(Time)]]

\* what a function call ends in: a returned value or a raised exception
Return(v) == [exc |-> "", ret |-> v]
Raise(e) == [exc |-> e, ret |-> None]

\* OCSPWithPOE.extract_basic_ocsp_response
extract_basic_ocsp_response(ocsp_response_data) ==
    IF ocsp_response_data.response_status # "successful" THEN None
    ELSE IF ocsp_response_data.response_bytes.response_type
                # "basic_ocsp_response" THEN None
    ELSE Some(ocsp_response_data.response_bytes.response)

\* truth value of "if basic_ocsp_response:": None is falsy; an asn1crypto
\* Sequence is truthy iff it has children, and BasicOCSPResponse always has
\* its four fields
Truthy(basic_ocsp_response) == basic_ocsp_response # None

\* OCSPWithPOE._extract_unique_response
_extract_unique_response(ocsp_response_data) ==
    LET basic_ocsp_response == extract_basic_ocsp_response(ocsp_response_data)
    IN  IF Truthy(basic_ocsp_response) THEN Return(None)
        \* None['tbs_response_data']
        ELSE IF basic_ocsp_response = None THEN Raise(TypeError)
        ELSE LET tbs_response == basic_ocsp_response[1].tbs_response_data
             IN  IF Len(tbs_response.responses) # 1 THEN Return(None)
                 ELSE Return(Some(tbs_response.responses[1]))

\* OCSPWithPOE.usable_at
OCSPWithPOE_usable_at(self, vt, pol, tol, sig) ==
    LET cert_response == _extract_unique_response(self.ocsp_response_data)
    IN  IF cert_response.exc # "" THEN cert_response.exc
        ELSE IF cert_response.ret = None THEN UNCLEAR
        ELSE _judge_revinfo(cert_response.ret[1].this_update,
                            cert_response.ret[1].next_update,
                            vt, pol, tol, sig)

\* CRLWithPOE.usable_at
CRLWithPOE_usable_at(self, vt, pol, tol, sig) ==
    LET tbs_cert_list == self.crl_data.tbs_cert_list
    IN  _judge_revinfo(tbs_cert_list.this_update, tbs_cert_list.next_update,
                       vt, pol, tol, sig)

---------------------------------------------------------------------------
(* The state machine: a caller binds the arguments of one call (Init) and  *)
(* the called function runs to its end.                                    *)

NoRevinfo == [cls |-> "none"]

InitArgs ==
    /\ validation_time \in Time
    /\ policy \in CertRevTrustPolicy
    /\ time_tolerance \in Tolerance
    /\ signature_poe_time \in Optional(Time)
    /\ pc = "call"
    /\ result = ""

\* a direct call of _judge_revinfo
InitJudge ==
    /\ entry = "_judge_revinfo"
    /\ revinfo = NoRevinfo
    /\ this_update \in Optional(Time)
    /\ next_update \in Optional(Time)

\* a call of usable_at on a constructed OCSPWithPOE
InitOCSP ==
    /\ entry = "OCSPWithPOE.usable_at"
    /\ revinfo \in {[cls |-> "OCSPWithPOE", ocsp_response_data |-> d] :
                        d \in OCSPResponse}
    /\ this_update = None
    /\ next_update = None

\* a call of usable_at on a constructed CRLWithPOE
InitCRL ==
    /\ entry = "CRLWithPOE.usable_at"
    /\ revinfo \in {[cls |-> "CRLWithPOE", crl_data |-> d] :
                        d \in CertificateList}
    /\ this_update = None
    /\ next_update = None

Init == InitArgs /\ (InitJudge \/ InitOCSP \/ InitCRL)

JudgeRevinfo ==
    /\ pc = "call"
    /\ entry = "_judge_revinfo"
    /\ result' = _judge_revinfo(this_update, next_update, validation_time,
                                policy, time_tolerance, signature_poe_time)
    /\ pc' = "done"
    /\ UNCHANGED <<entry, revinfo, this_update, next_update, validation_time,
                   policy, time_tolerance, signature_poe_time>>

OCSPUsableAt ==
    /\ pc = "call"
    /\ entry = "OCSPWithPOE.usable_at"
    /\ result' = OCSPWithPOE_usable_at(revinfo, validation_time, policy,
                                       time_tolerance, signature_poe_time)
    /\ pc' = "done"
    /\ UNCHANGED <<entry, revinfo, this_update, next_update, validation_time,
                   policy, time_tolerance, signature_poe_time>>

CRLUsableAt ==
    /\ pc = "call"
    /\ entry = "CRLWithPOE.usable_at"
    /\ result' = CRLWithPOE_usable_at(revinfo, validation_time, policy,
                                      time_tolerance, signature_poe_time)
    /\ pc' = "done"
    /\ UNCHANGED <<entry, revinfo, this_update, next_update, validation_time,
                   policy, time_tolerance, signature_poe_time>>

Next == JudgeRevinfo \/ OCSPUsableAt \/ CRLUsableAt

Spec == Init /\ [][Next]_vars

TypeOK ==
    /\ pc \in {"call", "done"}
    /\ pc = "done" =>
         result \in RevinfoUsabilityRating \cup {NotImplementedError, TypeError}

---------------------------------------------------------------------------
(* Properties *)

\* a direct call of _judge_revinfo has ended
JudgeDone == pc = "done" /\ entry = "_judge_revinfo"

\* a call of OCSPWithPOE.usable_at has ended
OCSPDone == pc = "done" /\ entry = "OCSPWithPOE.usable_at"

ReqType == policy.freshness_req_type

\* _judge_revinfo on the arguments of the ended call, with some replaced
JudgeWithTolerance(tol) ==
    _judge_revinfo(this_update, next_update, validation_time, policy, tol,
                   signature_poe_time)

JudgeWithTimes(tu, vt) ==
    _judge_revinfo(tu, next_update, vt, policy, time_tolerance,
                   signature_poe_time)

JudgeWithNextUpdate(nu) ==
    _judge_revinfo(this_update, nu, validation_time, policy, time_tolerance,
                   signature_poe_time)

JudgeWithFreshnessAndPOE(f, sig) ==
    _judge_revinfo(this_update, next_update, validation_time,
                   [policy EXCEPT !.freshness = f], time_tolerance, sig)

\* the effective freshness window as the specification words it, for a
\* present this_update tu; None when undefined
EffectiveWindow(tu) ==
    IF policy.freshness # None
    THEN Some(Abs(policy.freshness[1]) + time_tolerance)
    ELSE IF next_update # None /\ next_update[1] >= tu
    THEN Some((next_update[1] - tu) + time_tolerance)
    ELSE None

\* C1: a call of _judge_revinfo with this_update absent returns UNCLEAR,
\* whatever the other arguments (unrecognized policy values included).
C1_AbsentThisUpdateIsUnclear ==
    (JudgeDone /\ this_update = None) => result = UNCLEAR

C1_Witness ==
    /\ JudgeDone
    /\ this_update = None
    /\ next_update # None
    /\ signature_poe_time # None
    /\ ReqType = OTHER_REQ_TYPE
    /\ result = UNCLEAR

\* the OCSP response from which no unique sub-response can be extracted
NotExtractable(d) ==
    \/ d.response_status # "successful"
    \/ d.response_bytes.response_type # "basic_ocsp_response"
    \/ Len(d.response_bytes.response.tbs_response_data.responses) # 1

\* C2: OCSPWithPOE.usable_at returns UNCLEAR, and does not raise, whenever
\* the response status is not successful, the response type is not a basic
\* OCSP response, or the number of sub-responses is not one.
C2_NotExtractableIsUnclear ==
    (OCSPDone /\ NotExtractable(revinfo.ocsp_response_data))
        => result = UNCLEAR

\* C3: for a successful basic OCSP response with exactly one sub-response,
\* OCSPWithPOE.usable_at returns the rating _judge_revinfo gives for that
\* sub-response's thisUpdate and nextUpdate.
C3_ExtractableIsJudged ==
    (OCSPDone /\ ~NotExtractable(revinfo.ocsp_response_data))
        => LET r == revinfo.ocsp_response_data.response_bytes.response
                        .tbs_response_data.responses[1]
           IN  result = _judge_revinfo(r.this_update, r.next_update,
                                       validation_time, policy,
                                       time_tolerance, signature_poe_time)

\* C4 as claimed: in every policy mode, a call that returns OK still returns
\* OK when only its tolerance is increased.
C4_ToleranceMonotoneEveryMode ==
    (JudgeDone /\ result = OK)
        => \A t2 \in Tolerance :
              t2 >= time_tolerance => JudgeWithTolerance(t2) = OK

\* C4 as amended: in Default and MaxDiffRevocationValidation mode (every
\* mode but TimeAfterSignature), a call that returns OK still returns OK
\* when only its tolerance is increased.
C4_ToleranceMonotoneDefaultMaxDiff ==
    (JudgeDone /\ result = OK /\ ReqType # TIME_AFTER_SIGNATURE)
        => \A t2 \in Tolerance :
              t2 >= time_tolerance => JudgeWithTolerance(t2) = OK

C4_Witness ==
    /\ JudgeDone
    /\ ReqType = MAX_DIFF_REVOCATION_VALIDATION
    /\ policy.freshness # None
    /\ time_tolerance = 0
    /\ result = OK
    /\ Abs(validation_time - this_update[1]) = Abs(policy.freshness[1])
    /\ Abs(policy.freshness[1]) > 0
    /\ \E t2 \in Tolerance : t2 > 0 /\ JudgeWithTolerance(t2) = OK

\* C5 as claimed: in Default mode with this_update and next_update present,
\* validation_time > next_update + tolerance gives STALE for every policy
\* and every ordering of this_update and next_update.
C5_PastNextUpdateIsStale ==
    (/\ JudgeDone
     /\ ReqType = DEFAULT
     /\ this_update # None
     /\ next_update # None
     /\ validation_time > next_update[1] + time_tolerance)
        => result = STALE

\* C5 as amended: in Default mode with this_update and next_update present,
\* validation_time > next_update + tolerance gives STALE when the policy is
\* retroactive or validation_time >= this_update - tolerance.
C5_PastNextUpdateIsStaleUnlessTooNew ==
    (/\ JudgeDone
     /\ ReqType = DEFAULT
     /\ this_update # None
     /\ next_update # None
     /\ validation_time > next_update[1] + time_tolerance
     /\ \/ policy.retroactive_revinfo
        \/ validation_time >= this_update[1] - time_tolerance)
        => result = STALE

C5_Witness ==
    /\ JudgeDone
    /\ ReqType = DEFAULT
    /\ this_update # None
    /\ next_update # None
    /\ policy.retroactive_revinfo
    /\ validation_time > next_update[1] + time_tolerance
    /\ validation_time < this_update[1] - time_tolerance
    /\ result = STALE

\* the ended call and the call on (tu2, vt2) form a pair of the symmetry
\* claim: opposite deltas, the ended call's positive, both windows defined
MaxDiffPair(tu2, vt2) ==
    /\ validation_time - this_update[1] > 0
    /\ vt2 - tu2 = -(validation_time - this_update[1])
    /\ _freshness_delta(policy, this_update, next_update, time_tolerance)
            # None
    /\ _freshness_delta(policy, Some(tu2), next_update, time_tolerance)
            # None

MaxDiffSymmetric(tu2, vt2) ==
    LET r2 == JudgeWithTimes(Some(tu2), vt2)
    IN  /\ result = OK <=> r2 = OK
        /\ result # OK => (result = STALE /\ r2 = TOO_NEW)

\* C6 as claimed: in MaxDiffRevocationValidation mode two calls with deltas
\* d > 0 and -d, differing only in validation_time and/or this_update, are
\* both OK or are STALE and TOO_NEW, also with a window derived from
\* next_update - this_update.
C6_MaxDiffSymmetry ==
    (JudgeDone /\ ReqType = MAX_DIFF_REVOCATION_VALIDATION
               /\ this_update # None)
        => \A tu2 \in Time, vt2 \in Time :
              MaxDiffPair(tu2, vt2) => MaxDiffSymmetric(tu2, vt2)

\* C6 as amended: the same, when policy.freshness is set or the two calls
\* have the same this_update.
C6_MaxDiffSymmetrySameWindow ==
    (JudgeDone /\ ReqType = MAX_DIFF_REVOCATION_VALIDATION
               /\ this_update # None)
        => \A tu2 \in Time, vt2 \in Time :
              (/\ MaxDiffPair(tu2, vt2)
               /\ (policy.freshness # None \/ tu2 = this_update[1]))
                  => MaxDiffSymmetric(tu2, vt2)

C6_Witness ==
    /\ JudgeDone
    /\ ReqType = MAX_DIFF_REVOCATION_VALIDATION
    /\ this_update # None
    /\ policy.freshness = None
    /\ result = STALE
    /\ \E vt2 \in Time :
          /\ MaxDiffPair(this_update[1], vt2)
          /\ JudgeWithTimes(this_update, vt2) = TOO_NEW

\* signature_poe_time if supplied, validation_time otherwise
Anchor ==
    IF signature_poe_time # None THEN signature_poe_time[1]
    ELSE validation_time

\* C7: in TimeAfterSignature mode with a defined window w, this_update =
\* anchor + w gives OK and this_update = anchor + w - e, e > 0, gives STALE.
C7_TimeAfterSignatureBoundary ==
    (/\ JudgeDone
     /\ ReqType = TIME_AFTER_SIGNATURE
     /\ this_update # None
     /\ EffectiveWindow(this_update[1]) # None)
        => LET w == EffectiveWindow(this_update[1])[1]
           IN  /\ this_update[1] = Anchor + w => result = OK
               /\ this_update[1] < Anchor + w => result = STALE

C7_Witness ==
    /\ JudgeDone
    /\ ReqType = TIME_AFTER_SIGNATURE
    /\ this_update # None
    /\ signature_poe_time # None
    /\ signature_poe_time[1] # validation_time
    /\ policy.freshness # None
    /\ time_tolerance > 0
    /\ this_update[1] = Anchor + Abs(policy.freshness[1]) + time_tolerance
    /\ result = OK

\* C8 as claimed: a call whose freshness_req_type is none of the three
\* members raises and returns no rating, also with this_update absent.
C8_UnknownPolicyAlwaysRaises ==
    (JudgeDone /\ ReqType \notin FreshnessReqType)
        => (result = NotImplementedError
            /\ result \notin RevinfoUsabilityRating)

\* C8 as amended: a call whose freshness_req_type is none of the three
\* members and whose this_update is present raises NotImplementedError and
\* returns no rating.
C8_UnknownPolicyRaisesWithThisUpdate ==
    (JudgeDone /\ ReqType \notin FreshnessReqType /\ this_update # None)
        => (result = NotImplementedError
            /\ result \notin RevinfoUsabilityRating)

C8_Witness ==
    /\ JudgeDone
    /\ ReqType = OTHER_REQ_TYPE
    /\ this_update # None
    /\ next_update # None
    /\ result = NotImplementedError

\* the decision list of the Default mode, for a present this_update
DefaultDecisionList ==
    IF next_update = None THEN UNCLEAR
    ELSE IF /\ ~policy.retroactive_revinfo
            /\ validation_time < this_update[1] - time_tolerance
         THEN TOO_NEW
    ELSE IF validation_time > next_update[1] + time_tolerance THEN STALE
    ELSE OK

\* C9: in Default mode with this_update present the rating is the decision
\* list UNCLEAR / TOO_NEW / STALE / OK in that order; a retroactive policy
\* never yields TOO_NEW, and policy.freshness and signature_poe_time have
\* no influence.
C9_DefaultDecisionList ==
    (JudgeDone /\ ReqType = DEFAULT /\ this_update # None)
        => /\ result = DefaultDecisionList
           /\ policy.retroactive_revinfo => result # TOO_NEW
           /\ \A f \in Optional(Freshness), sig \in Optional(Time) :
                 JudgeWithFreshnessAndPOE(f, sig) = result

C9_Witness ==
    /\ JudgeDone
    /\ ReqType = DEFAULT
    /\ this_update # None
    /\ next_update # None
    /\ ~policy.retroactive_revinfo
    /\ validation_time < this_update[1] - time_tolerance
    /\ validation_time > next_update[1] + time_tolerance
    /\ result = TOO_NEW

\* C10: in TimeAfterSignature and MaxDiffRevocationValidation mode with
\* this_update present, the result is UNCLEAR iff policy.freshness is unset
\* and next_update is absent or before this_update; with policy.freshness
\* set, next_update has no influence on the result.
C10_UnclearIffWindowUndefined ==
    (/\ JudgeDone
     /\ ReqType \in {TIME_AFTER_SIGNATURE, MAX_DIFF_REVOCATION_VALIDATION}
     /\ this_update # None)
        => /\ result = UNCLEAR
                <=> /\ policy.freshness = None
                    /\ \/ next_update = None
                       \/ next_update[1] < this_update[1]
           /\ policy.freshness # None
                => \A nu \in Optional(Time) : JudgeWithNextUpdate(nu) = result

C10_Witness ==
    /\ JudgeDone
    /\ ReqType \in {TIME_AFTER_SIGNATURE, MAX_DIFF_REVOCATION_VALIDATION}
    /\ this_update # None
    /\ policy.freshness = None
    /\ next_update # None
    /\ next_update[1] < this_update[1]
    /\ result = UNCLEAR

====
